---- MODULE Spec2Model ----
(***************************************************************************)
(* A model of the bigwigCorrelate driver (deeptools/bigwigCorrelate.py):   *)
(* argument parsing, label processing, the call of the scoring engine      *)
(* score_bw.getScorePerBin, the "too few bins" guard, the saving of the    *)
(* matrix and the prepending of the raw-count header.                      *)
(*                                                                         *)
(* Python strings are sequences of one-character strings, Python's None    *)
(* and an optional value are the sequences <<>> and <<v>>, a Python list   *)
(* is a sequence.                                                          *)
(***************************************************************************)
EXTENDS Integers, Sequences, FiniteSets, TLC

\* ------------------------------------------------------------------ bounds
MaxFiles == 2
MaxUnits == 3
MaxBinSize == 1
MaxDistance == 1

\* ----------------------------------------------------------- Python values
None == <<>>
Some(v) == <<v>>

\* The file names, labels and region file the command line is drawn from.
F_local == <<"d", "/", "a">>
F_http == <<"h", "t", "t", "p", ":", "/", "/", "h", "/", "c">>
F_https == <<"h", "t", "t", "p", "s", ":", "/", "/", "h", "/", "g", "/", "b">>
F_ftp == <<"f", "t", "p", ":", "/", "/", "h", "/", "d", "/", "e">>
FileNames == {F_local, F_http, F_https, F_ftp}
LabelNames == {<<"x">>, <<"y">>}
BedName == <<"r", ".", "b", "e", "d">>
RawName == <<"r", "a", "w">>

SeqsUpTo(S, n) == UNION {[1..k -> S] : k \in 1..n}

\* ------------------------------------------------------- string functions
\* str.startswith
StartsWith(s, p) == Len(s) >= Len(p) /\ SubSeq(s, 1, Len(p)) = p

\* str.rfind(ch) + 1: the 1-based position of the last ch, 0 when absent
RFind(s, ch) ==
  LET hits == {i \in 1..Len(s) : s[i] = ch}
  IN  IF hits = {} THEN 0 ELSE CHOOSE i \in hits : \A j \in hits : j <= i

\* posixpath.basename: i = p.rfind('/') + 1; return p[i:]
basename_whole(p) == p
basename(p) == SubSeq(p, RFind(p, "/") + 1, Len(p))

\* str.split(sep): the list of the pieces between the separators
RECURSIVE Split(_, _)
Split(s, sep) ==
  LET hits == {i \in 1..Len(s) : s[i] = sep}
  IN  IF hits = {} THEN <<s>>
      ELSE LET i == CHOOSE k \in hits : \A j \in hits : k <= j
           IN  <<SubSeq(s, 1, i - 1)>> \o Split(SubSeq(s, i + 1, Len(s)), sep)

\* list[-1]
Last(l) == l[Len(l)]

\* sep.join(list)
RECURSIVE Join(_, _)
Join(sep, l) ==
  IF l = <<>> THEN <<>>
  ELSE IF Len(l) = 1 THEN l[1]
  ELSE l[1] \o sep \o Join(sep, Tail(l))

\* "{}".format(n) for a non-negative integer
Digit == <<"0", "1", "2", "3", "4", "5", "6", "7", "8", "9">>
RECURSIVE FormatInt(_)
FormatInt(n) ==
  IF n < 10 THEN <<Digit[n + 1]>>
  ELSE FormatInt(n \div 10) \o <<Digit[(n % 10) + 1]>>

\* -------------------------------------------------------------- the state
VARIABLES pc, argv, args, bed_regions, engineCall, opened,
          num_reads_per_bin, stdout, stderr, status, outFile, rawFile

vars == <<pc, argv, args, bed_regions, engineCall, opened,
          num_reads_per_bin, stdout, stderr, status, outFile, rawFile>>

NoArgs == [command |-> "", bwfiles |-> <<>>, labels |-> None, binSize |-> 0,
           distanceBetweenBins |-> 0, BED |-> None, outRawCounts |-> None]

NoOutFile == [opened |-> FALSE, saved |-> FALSE, matrix |-> <<>>, labels |-> <<>>]

Init ==
  /\ pc = "parse_args"
  /\ argv = NoArgs
  /\ args = NoArgs
  /\ bed_regions = None
  /\ engineCall = None
  /\ opened = {}
  /\ num_reads_per_bin = <<>>
  /\ stdout = <<>>
  /\ stderr = <<>>
  /\ status = None
  /\ outFile = NoOutFile
  /\ rawFile = <<>>

\* ------------------------------------------------ parse_arguments (argparse)
Commands == {"bins", "BED-file"}

\* The values of --BED each sub-command accepts: 'bins' declares the option
\* with default None and no "required", 'BED-file' requires it.
BedChoices(case) ==
  IF case = "bins" THEN {None, Some(BedName)} ELSE {Some(BedName)}

\* The namespaces parse_args can return for the command lines considered.
\* --bwfiles and --labels have nargs='+': no empty list.
ParsedArgs ==
  {a \in [command : Commands,
          bwfiles : SeqsUpTo(FileNames, MaxFiles),
          labels : {None} \cup SeqsUpTo(LabelNames, MaxFiles),
          binSize : 0..MaxBinSize,
          distanceBetweenBins : 0..MaxDistance,
          BED : {None, Some(BedName)},
          outRawCounts : {None, Some(RawName)}] :
     a.BED \in BedChoices(a.command)}

\* args = parse_arguments().parse_args(args): argparse.FileType('w') opens,
\* and so creates or truncates, the output files while parsing.
ParseArgs ==
  /\ pc = "parse_args"
  /\ \E a \in ParsedArgs :
       /\ argv' = a
       /\ args' = a
  /\ outFile' = [outFile EXCEPT !.opened = TRUE]
  /\ rawFile' = <<>>
  /\ pc' = "process_args"
  /\ UNCHANGED <<bed_regions, engineCall, opened, num_reads_per_bin,
                 stdout, stderr, status>>

\* ------------------------------------------------------------ process_args
MsgLabels == "The number of labels does not match the number of bigWig files."
MsgTwoFiles == "Please input at least two bigWig (.bw) files to compare"
MsgNoFiles == "No valid bigwig files"

S_http == <<"h", "t", "t", "p", ":", "/", "/">>
S_https == <<"h", "t", "t", "p", "s", ":", "/", "/">>
S_ftp == <<"f", "t", "p", ":", "/", "/">>

\* if args.labels and len(args.bwfiles) != len(args.labels)
LabelsMismatch_never(a) == FALSE
LabelsMismatch(a) == a.labels # <<>> /\ Len(a.bwfiles) # Len(a.labels)

\* the body of the loop over args.bwfiles
DefaultLabel(f) ==
  IF StartsWith(f, S_http) \/ StartsWith(f, S_https) \/ StartsWith(f, S_ftp)
  THEN Last(Split(f, "/"))
  ELSE basename(f)

\* args.labels = []; for f in args.bwfiles: args.labels.append(...)
DefaultLabels(files) == [i \in 1..Len(files) |-> DefaultLabel(files[i])]

ProcessArgs ==
  /\ pc = "process_args"
  /\ IF LabelsMismatch(args)
     THEN /\ stdout' = Append(stdout, MsgLabels)
          /\ status' = Some(0)
          /\ pc' = "exited"
          /\ UNCHANGED args
     ELSE /\ args' = IF args.labels = <<>>
                     THEN [args EXCEPT !.labels = DefaultLabels(args.bwfiles)]
                     ELSE args
          /\ pc' = "main"
          /\ UNCHANGED <<stdout, status>>
  /\ UNCHANGED <<argv, bed_regions, engineCall, opened, num_reads_per_bin,
                 stderr, outFile, rawFile>>

\* -------------------------------------------------------------------- main
\* if len(args.bwfiles) < 2: print ...; exit(1)
CheckFileCount ==
  /\ pc = "main"
  /\ IF Len(args.bwfiles) < 2
     THEN /\ stdout' = Append(stdout, MsgTwoFiles)
          /\ status' = Some(1)
          /\ pc' = "exited"
     ELSE /\ pc' = "select_regions"
          /\ UNCHANGED <<stdout, status>>
  /\ UNCHANGED <<argv, args, bed_regions, engineCall, opened,
                 num_reads_per_bin, stderr, outFile, rawFile>>

\* if 'BED' in args: bed_regions = args.BED else: bed_regions = None;
\* bwFiles = args.bwfiles; if len(bwFiles) == 0: print ...; exit(1)
SelectRegions ==
  /\ pc = "select_regions"
  /\ bed_regions' = IF "BED" \in DOMAIN args THEN args.BED ELSE None
  /\ IF Len(args.bwfiles) = 0
     THEN /\ stdout' = Append(stdout, MsgNoFiles)
          /\ status' = Some(1)
          /\ pc' = "exited"
     ELSE /\ pc' = "call_score"
          /\ UNCHANGED <<stdout, status>>
  /\ UNCHANGED <<argv, args, engineCall, opened, num_reads_per_bin,
                 stderr, outFile, rawFile>>

\* stepSize=args.binSize + args.distanceBetweenBins
StepSize_binOnly(binSize, distanceBetweenBins) == binSize
StepSize(binSize, distanceBetweenBins) == binSize + distanceBetweenBins

\* score_bw.getScorePerBin(bwFiles, args.binSize, ..., stepSize=...,
\*   bedFile=bed_regions, out_file_for_raw_data=args.outRawCounts)
ScoreInvoke ==
  /\ pc = "call_score"
  /\ engineCall' = Some([bwFiles |-> args.bwfiles,
                         binSize |-> args.binSize,
                         stepSize |-> StepSize(args.binSize, args.distanceBetweenBins),
                         bedFile |-> bed_regions,
                         out_file_for_raw_data |-> args.outRawCounts])
  /\ pc' = "scoring"
  /\ UNCHANGED <<argv, args, bed_regions, opened, num_reads_per_bin,
                 stdout, stderr, status, outFile, rawFile>>

\* ------------------------------------------- the scoring engine (external)
\* The average of file f over retained unit u: a value that tells the files
\* of FileNames (their names differ in length) and the units apart.
Signal(f, u) == 10 * Len(f) + u

\* num_reads_per_bin as main uses it: main reports shape[0] as the "Number
\* of bins found", exits with "too few non zero bins" when shape[0] < 2 and
\* saves the array as it is, so its first axis is the n retained units; the
\* other axis holds one value per file of bwFiles.
ScoreMatrix(files, n) ==
  [u \in 1..n |-> [i \in 1..Len(files) |-> Signal(files[i], u)]]

RECURSIVE RowValues(_)
RowValues(row) ==
  IF row = <<>> THEN <<>>
  ELSE <<"\t">> \o FormatInt(row[1]) \o RowValues(Tail(row))

\* one line of the raw file: chrom, start, end and one value per file
RawRow(u, row) ==
  <<"c", "\t">> \o FormatInt(u - 1) \o <<"\t">> \o FormatInt(u)
    \o RowValues(row) \o <<"\n">>

RECURSIVE RawRows(_, _)
RawRows(m, u) ==
  IF u > Len(m) THEN <<>> ELSE RawRow(u, m[u]) \o RawRows(m, u + 1)

Range(s) == {s[i] : i \in 1..Len(s)}

\* getScorePerBin returns: every file was read, the rows of the retained
\* units were written to out_file_for_raw_data when one was given.
ScoreReturn ==
  /\ pc = "scoring"
  /\ \E n \in 0..MaxUnits :
       /\ num_reads_per_bin' = ScoreMatrix(args.bwfiles, n)
       /\ rawFile' = IF args.outRawCounts # None
                     THEN RawRows(ScoreMatrix(args.bwfiles, n), 1)
                     ELSE rawFile
  /\ opened' = Range(args.bwfiles)
  /\ pc' = "check_bins"
  /\ UNCHANGED <<argv, args, bed_regions, engineCall, stdout, stderr,
                 status, outFile>>

MsgTraceback == <<"Traceback">>

\* getScorePerBin raises (a file cannot be read): main has no handler, the
\* interpreter prints the traceback and exits with status 1.
ScoreFail ==
  /\ pc = "scoring"
  /\ \E k \in 0..(Len(args.bwfiles) - 1) :
       opened' = Range(SubSeq(args.bwfiles, 1, k))
  /\ stderr' = Append(stderr, MsgTraceback)
  /\ status' = Some(1)
  /\ pc' = "exited"
  /\ UNCHANGED <<argv, args, bed_regions, engineCall, num_reads_per_bin,
                 stdout, outFile, rawFile>>

\* ------------------------------------------------------- main, after scoring
\* "Number of bins found: {}\n".format(num_reads_per_bin.shape[0])
BinsFoundMessage_noCount(n) == <<"Number of bins found: ">> \o <<"\n">>
BinsFoundMessage(n) == <<"Number of bins found: ">> \o FormatInt(n) \o <<"\n">>

\* the argument of exit(...): printed to stderr, exit status 1
MsgTooFew ==
  <<"ERROR: too few non zero bins found.\n",
    "If using --region please check that this ",
    "region is covered by reads.\n">>

\* if num_reads_per_bin.shape[0] < 2
TooFewBins_onlyEmpty(n) == n < 1
TooFewBins(n) == n < 2

CheckBins ==
  /\ pc = "check_bins"
  /\ IF TooFewBins(Len(num_reads_per_bin))
     THEN /\ stderr' = stderr \o <<BinsFoundMessage(Len(num_reads_per_bin)), MsgTooFew>>
          /\ status' = Some(1)
          /\ pc' = "exited"
     ELSE /\ stderr' = Append(stderr, BinsFoundMessage(Len(num_reads_per_bin)))
          /\ pc' = "save"
          /\ UNCHANGED status
  /\ UNCHANGED <<argv, args, bed_regions, engineCall, opened,
                 num_reads_per_bin, stdout, outFile, rawFile>>

\* np.savez_compressed(args.outFileName, matrix=num_reads_per_bin, labels=args.labels)
SaveMatrix ==
  /\ pc = "save"
  /\ outFile' = [outFile EXCEPT !.saved = TRUE,
                                !.matrix = num_reads_per_bin,
                                !.labels = args.labels]
  /\ pc' = "raw_header"
  /\ UNCHANGED <<argv, args, bed_regions, engineCall, opened,
                 num_reads_per_bin, stdout, stderr, status, rawFile>>

Quote == <<"'">>
QuoteTabQuote == <<"'", "\t", "'">>
QuoteNewline == <<"'", "\n">>

\* header = "#'chr'\t'start'\t'end'\t"
HeaderPrefix ==
  <<"#", "'", "c", "h", "r", "'", "\t",
    "'", "s", "t", "a", "r", "t", "'", "\t",
    "'", "e", "n", "d", "'", "\t">>

\* header += "'" + "'\t'".join(args.labels) + "'\n"
RawHeader_noLabels(labels) == HeaderPrefix \o <<"\n">>
RawHeader(labels) ==
  HeaderPrefix \o Quote \o Join(QuoteTabQuote, labels) \o QuoteNewline

\* content = f.read(); f.seek(0, 0); f.write(header + content)
PrependHeader_append(header, content) == content \o header
PrependHeader(header, content) == header \o content

\* if args.outRawCounts: ...; then main returns
WriteRawHeader ==
  /\ pc = "raw_header"
  /\ rawFile' = IF args.outRawCounts # None
                THEN PrependHeader(RawHeader(args.labels), rawFile)
                ELSE rawFile
  /\ status' = Some(0)
  /\ pc' = "done"
  /\ UNCHANGED <<argv, args, bed_regions, engineCall, opened,
                 num_reads_per_bin, stdout, stderr, outFile>>

Next ==
  \/ ParseArgs
  \/ ProcessArgs
  \/ CheckFileCount
  \/ SelectRegions
  \/ ScoreInvoke
  \/ ScoreReturn
  \/ ScoreFail
  \/ CheckBins
  \/ SaveMatrix
  \/ WriteRawHeader

Spec == Init /\ [][Next]_vars

\* =================================================================== claims
\* Helpers of the claims, stated on the command line as given (argv).
Contains(s, t) ==
  \E i \in 0..(Len(s) - Len(t)) : SubSeq(s, i + 1, i + Len(t)) = t

\* l is the part of f after its last "/" (the whole of f when it has none)
IsLastSegment(l, f) ==
  /\ "/" \notin Range(l)
  /\ Len(l) <= Len(f)
  /\ SubSeq(f, Len(f) - Len(l) + 1, Len(f)) = l
  /\ (Len(l) = Len(f) \/ f[Len(f) - Len(l)] = "/")

LabelCountError == argv.labels # None /\ Len(argv.labels) # Len(argv.bwfiles)
FileCountError == Len(argv.bwfiles) < 2
ConfigError == pc # "parse_args" /\ (LabelCountError \/ FileCountError)

\* getScorePerBin has returned its array (it did not raise)
ScoringReturned ==
  /\ engineCall # None
  /\ pc \in {"check_bins", "save", "raw_header", "done", "exited"}
  /\ MsgTraceback \notin Range(stderr)

Retained == Len(num_reads_per_bin)

\* C1: every configuration error the driver detects (label count different
\* from the file count, fewer than two files) ends the process with a
\* non-zero exit status and a message.
C1_ConfigErrorExitsNonZero ==
  (ConfigError /\ pc = "exited")
    => (status \in {Some(1)} /\ Len(stdout) > 0)

\* C2: in a run with a configuration error the scoring engine is never
\* invoked, no signal file is opened, no matrix is saved and no raw-count
\* header is written.
C2_ConfigErrorBeforeScoring ==
  ConfigError
    => /\ engineCall = None
       /\ opened = {}
       /\ ~outFile.saved
       /\ rawFile = <<>>
       /\ pc \in {"process_args", "main", "exited"}

C2_Witness ==
  /\ pc = "exited"
  /\ LabelCountError
  /\ Len(argv.bwfiles) >= 2
  /\ stdout = <<MsgLabels>>

\* C3: in runs that save the matrix there is one label per file, and row i
\* of the saved matrix belongs to file i: the matrix has one row per file
\* (files x retained units) and row i holds the values of file i, unit by
\* unit.
C3_RowIsFile ==
  outFile.saved
    => /\ Len(outFile.labels) = Len(argv.bwfiles)
       /\ Len(outFile.matrix) = Len(argv.bwfiles)
       /\ \A i \in 1..Len(outFile.matrix) :
            \A u \in 1..Len(outFile.matrix[i]) :
              outFile.matrix[i][u] = Signal(argv.bwfiles[i], u)

\* C4 as stated: when scoring returns fewer than 2 retained units the run
\* ends with an error, and the error message contains the retained count.
C4_ErrorMessageHasCount ==
  (ScoringReturned /\ Retained < 2 /\ pc # "check_bins")
    => /\ pc = "exited"
       /\ status = Some(1)
       /\ Len(stderr) > 0
       /\ \E k \in 1..Len(Last(stderr)) :
            Contains(<<Last(stderr)[k]>>, FormatInt(Retained))

\* C4 amended: when scoring returns fewer than 2 retained units the run ends
\* after scoring with exit status 1 and the "too few non zero bins" message
\* on stderr; the retained count is in the "Number of bins found" line
\* written to stderr just before that message, not in the message itself.
C4_TooFewBinsReported ==
  (ScoringReturned /\ Retained < 2 /\ pc # "check_bins")
    => /\ pc = "exited"
       /\ status = Some(1)
       /\ ~outFile.saved
       /\ Len(stderr) = 2
       /\ stderr[2] = MsgTooFew
       /\ Contains(stderr[1], FormatInt(Retained))
       /\ stderr[1][1] = "Number of bins found: "

C4_Witness ==
  /\ ScoringReturned
  /\ Retained = 1
  /\ pc = "exited"
  /\ argv.command = "BED-file"

\* C5: the matrix and labels are saved only in runs where scoring returned
\* for all files and at least 2 units were retained; a run that failed in
\* the engine or retained fewer than 2 units never has a saved matrix.
C5_MatrixOnlyAfterCompleteScoring ==
  /\ outFile.saved
       => /\ ScoringReturned
          /\ opened = Range(argv.bwfiles)
          /\ Len(outFile.matrix) >= 2
          /\ outFile.matrix = num_reads_per_bin
          /\ \A u \in 1..Len(outFile.matrix) :
               Len(outFile.matrix[u]) = Len(argv.bwfiles)
  /\ (pc = "exited" \/ MsgTraceback \in Range(stderr)
        \/ (ScoringReturned /\ Retained < 2))
       => ~outFile.saved

C5_Witness ==
  /\ pc = "done"
  /\ outFile.saved
  /\ Len(outFile.matrix) >= 2
  /\ status = Some(0)

\* C6: in bin mode the scoring engine is never invoked with a bin size <= 0
\* (such a run fails with a configuration error before scoring).
C6_NoScoringWithBadBinSize ==
  (engineCall # None /\ argv.command = "bins" /\ argv.BED = None)
    => engineCall[1].binSize > 0

\* The header the spec gives, "#chrom\tstart\tend\t<label1>\t<label2>...\n"
ClaimedHeader(labels) ==
  <<"#", "c", "h", "r", "o", "m", "\t", "s", "t", "a", "r", "t", "\t",
    "e", "n", "d", "\t">> \o Join(<<"\t">>, labels) \o <<"\n">>

\* The header of the code: every field in single quotes, "chr" for "chrom"
Quoted(s) == <<"'">> \o s \o <<"'">>
QuotedHeader(labels) ==
  <<"#">>
    \o Join(<<"\t">>,
            <<Quoted(<<"c", "h", "r">>), Quoted(<<"s", "t", "a", "r", "t">>),
              Quoted(<<"e", "n", "d">>)>>
              \o [i \in 1..Len(labels) |-> Quoted(labels[i])])
    \o <<"\n">>

NewLines(s) == Cardinality({i \in 1..Len(s) : s[i] = "\n"})

\* C7 as stated: with raw output requested, the raw table is the header
\* "#chrom<TAB>start<TAB>end<TAB><label1><TAB><label2>..." followed by one
\* row per retained unit.
C7_HeaderAsSpecified ==
  (pc = "done" /\ argv.outRawCounts # None)
    => /\ Len(rawFile) >= Len(ClaimedHeader(args.labels))
       /\ SubSeq(rawFile, 1, Len(ClaimedHeader(args.labels)))
            = ClaimedHeader(args.labels)

\* C7 amended: with raw output requested, in a run that completes, the raw
\* table is the header "#'chr'<TAB>'start'<TAB>'end'<TAB>'<label1>'<TAB>
\* '<label2>'..." (every field in single quotes, labels in file order)
\* followed by one row per retained unit; the header is put in front only
\* after scoring has returned and the matrix was saved, and the rows the
\* engine wrote are unchanged by it.
C7_RawTable ==
  /\ (pc = "done" /\ argv.outRawCounts # None)
       => /\ rawFile = QuotedHeader(args.labels) \o RawRows(num_reads_per_bin, 1)
          /\ NewLines(rawFile) = 1 + Retained
  /\ "#" \in Range(rawFile)
       => /\ pc = "done"
          /\ ScoringReturned
          /\ outFile.saved
          /\ rawFile[1] = "#"
  /\ (pc \in {"check_bins", "save", "raw_header"} /\ argv.outRawCounts # None)
       => rawFile = RawRows(num_reads_per_bin, 1)

C7_Witness ==
  /\ pc = "done"
  /\ argv.outRawCounts # None
  /\ Retained = 2
  /\ rawFile[1] = "#"

\* C8: without --labels the label of every file is the part of its name
\* after the last "/" (the basename of a local path, the last segment of a
\* http://, https:// or ftp:// source); labels given with a matching count
\* are used unchanged.
C8_LabelsFromFileNames ==
  (pc \in {"main", "select_regions", "call_score", "scoring", "check_bins",
           "save", "raw_header", "done"})
    => /\ argv.labels = None =>
            /\ Len(args.labels) = Len(argv.bwfiles)
            /\ \A i \in 1..Len(argv.bwfiles) :
                 /\ IsLastSegment(args.labels[i], argv.bwfiles[i])
                 /\ argv.bwfiles[i] = F_local => args.labels[i] = <<"a">>
                 /\ argv.bwfiles[i] = F_http => args.labels[i] = <<"c">>
                 /\ argv.bwfiles[i] = F_https => args.labels[i] = <<"b">>
                 /\ argv.bwfiles[i] = F_ftp => args.labels[i] = <<"e">>
       /\ argv.labels # None => args.labels = argv.labels

C8_Witness ==
  /\ pc = "main"
  /\ argv.labels = None
  /\ argv.bwfiles = <<F_local, F_http>>
  /\ args.labels = <<<<"a">>, <<"c">>>>

\* C9: the stride handed to the engine is binSize + distanceBetweenBins; for
\* binSize > 0 and distanceBetweenBins >= 0 it is >= binSize, so bin k+1
\* starts at or after the end of bin k, and distanceBetweenBins = 0 makes
\* the bins adjacent.
C9_StrideIsBinPlusGap ==
  engineCall # None
    => LET c == engineCall[1]
       IN  /\ c.binSize = argv.binSize
           /\ c.stepSize = argv.binSize + argv.distanceBetweenBins
           /\ (argv.binSize > 0 /\ argv.distanceBetweenBins >= 0)
                => /\ c.stepSize >= c.binSize
                   /\ \A k \in 0..MaxUnits :
                        (k + 1) * c.stepSize >= k * c.stepSize + c.binSize
           /\ argv.distanceBetweenBins = 0 => c.stepSize = c.binSize

C9_Witness ==
  /\ engineCall # None
  /\ argv.binSize > 0
  /\ argv.distanceBetweenBins > 0
  /\ engineCall[1].stepSize > engineCall[1].binSize

\* C10: a 'bins' run invokes the engine with bedFile None, a 'BED-file' run
\* with the region file given; no accepted command line makes a 'bins' run
\* score a region list.
C10_ModeSelectsRegions ==
  engineCall # None
    => /\ argv.command = "bins" => engineCall[1].bedFile = None
       /\ argv.command = "BED-file" => engineCall[1].bedFile = Some(BedName)

====
